---- MODULE Spec2Model ----
(***************************************************************************)
(* MentorLinks: the mentor dashboard (src/roles/mentor.py) and the page    *)
(* router (src/app.py).                                                    *)
(*                                                                         *)
(* Time.  An instant is an integer number of minutes.  A timestamp value   *)
(* is a record [kind, wall, off]:                                          *)
(*   kind = "datetime"  an aware datetime object with wall-clock reading   *)
(*                      wall and UTC offset off (both in minutes);         *)
(*   kind = "str"       ISO-8601 text with the same two fields written out *)
(*                      ("...T<wall>+<off>");                              *)
(*   kind = "badstr"    text that datetime.fromisoformat refuses;          *)
(*   kind = "other"     any non-datetime, non-text value (None, a number). *)
(* The instant a datetime denotes is wall - off, so the same instant has   *)
(* one representation per offset and astimezone really converts.           *)
(***************************************************************************)
EXTENDS Integers, Sequences, FiniteSets, Bags, TLC

VARIABLES
    clock,          \* the environment clock, minutes (datetime.now)
    requests,       \* table mentorshiprequest: request id -> row
    sessions,       \* table session: bag of rows (rows differ by sessionid only)
    availability,   \* table availability: set of rows
    nextSlotId,     \* the backend's next availabilityid
    profile,        \* table profile: userid -> row or NoRow
    storage,        \* bucket profilepics: set of stored file names
    run,            \* per render pass of mentor.show: position, fetched lists
                    \* and the local variables of the handler under way
    ev,             \* what the step just taken did, if it ran a handler:
                    \* the calls it issued, what they returned, what it showed
    cs,             \* classify_session: its inputs and its result
    session_state,  \* st.session_state as app.py reads it
    page            \* what the last pass of app.py rendered

vars == <<clock, requests, sessions, availability, nextSlotId, profile,
          storage, run, ev, cs, session_state, page>>

---------------------------------------------------------------------------
(* Bounds *)

MaxClock == 2
MaxSessions == 2
MaxSlots == 2
MaxFiles == 2
MaxSkew == 2

(* Program constants *)

WATOffset == 60
StartDelay == 5
SessionLength == 30

---------------------------------------------------------------------------
(* Timestamps: mentor.py lines 12-22 *)

NoTime == [kind |-> "none", wall |-> 0, off |-> 0]

Datetime(wall, off) == [kind |-> "datetime", wall |-> wall, off |-> off]

\* datetime.astimezone(tz): same instant, wall clock re-read in the zone tz.
astimezone(dt, off) == Datetime(dt.wall - dt.off + off, off)

\* datetime.isoformat(): the wall-clock fields and the offset written as text.
isoformat(dt) == [kind |-> "str", wall |-> dt.wall, off |-> dt.off]

\* datetime.fromisoformat(text): the fields read back; ValueError on bad text.
fromisoformat(s) ==
    IF s.kind = "str" THEN Datetime(s.wall, s.off) ELSE NoTime

\* dt + timedelta(minutes = m)
plus_minutes(dt, m) == Datetime(dt.wall + m, dt.off)

\* The instant an aware datetime denotes; datetimes compare by instant.
Instant(dt) == dt.wall - dt.off

\* datetime.now(WAT)
now_wat(c) == Datetime(c + WATOffset, WATOffset)

\* Lines 14-22: a datetime or ISO text re-read in WAT; nothing otherwise.
parse_datetime_safe(dt) ==
    IF dt.kind = "datetime" THEN astimezone(dt, WATOffset)
    ELSE IF dt.kind = "str" THEN astimezone(fromisoformat(dt), WATOffset)
    ELSE NoTime

classify_session_exclusive(start_time_str, end_time_str, c) ==
    LET now == now_wat(c)
        start == parse_datetime_safe(start_time_str)
        end == parse_datetime_safe(end_time_str)
    IN  IF start = NoTime \/ end = NoTime THEN "Invalid"
        ELSE IF Instant(end) <= Instant(now) THEN "Past"
        ELSE IF Instant(start) < Instant(now) /\ Instant(now) < Instant(end)
             THEN "Ongoing"
        ELSE "Upcoming"

\* Lines 24-36, at clock reading c.
classify_session(start_time_str, end_time_str, c) ==
    LET now == now_wat(c)
        start == parse_datetime_safe(start_time_str)
        end == parse_datetime_safe(end_time_str)
    IN  IF start = NoTime \/ end = NoTime THEN "Invalid"
        ELSE IF Instant(end) < Instant(now) THEN "Past"
        ELSE IF Instant(start) <= Instant(now) /\ Instant(now) <= Instant(end)
             THEN "Ongoing"
        ELSE "Upcoming"

---------------------------------------------------------------------------
(* The backend tables the mentor dashboard reads and writes *)

Mentors == {"m1", "m2"}
Mentees == {"e1", "e2"}
RequestIds == {1, 2}
Passes == {1, 2}

\* The collaborator's failure reasons (its second return value).
FailureMessages == {"calendar unavailable", "email not sent"}

InitRequests ==
    (1 :> [mentorid |-> "m1", menteeid |-> "e1", status |-> "PENDING"]) @@
    (2 :> [mentorid |-> "m1", menteeid |-> "e2", status |-> "PENDING"])

\* No handler under way in a pass.
NoJob == [kind |-> "none"]

Idle == [pc |-> "idle", mentor |-> "", reqs |-> {}, slots |-> {}, job |-> NoJob]

NoCall == [mentor |-> "", mentee |-> "", start |-> NoTime, end |-> NoTime]
NoReturn == [success |-> FALSE, msg |-> ""]
Nothing == [kind |-> "none", text |-> ""]

\* st.success / st.error / st.warning / st.info
Shown(kind, text) == [kind |-> kind, text |-> text]

NoEvent ==
    [op |-> "none", req |-> 0, was |-> "", t |-> 0, call |-> NoCall,
     ret |-> NoReturn, mail |-> FALSE, update |-> "", failed |-> FALSE,
     raised |-> FALSE, partial |-> FALSE, shown |-> Nothing]

\* select("*, mentee:users!...(email, userid)").eq("mentorid", m)
\*     .eq("status", "PENDING")
PendingRequests(m) ==
    { [id |-> r, menteeid |-> requests[r].menteeid] :
        r \in { q \in RequestIds : requests[q].mentorid = m
                                    /\ requests[q].status = "PENDING" } }

\* table("mentorshiprequest").update({"status": s}).eq("mentorshiprequestid", r)
UpdateStatus(tbl, r, s) == [tbl EXCEPT ![r].status = s]

\* create_session_with_meet_and_email, on success: the Session row it
\* guarantees, for the mentor, mentee and window it was called with.
SessionRow(mentor, mentee, start, end) ==
    [mentorid |-> mentor, menteeid |-> mentee,
     start |-> isoformat(start), end |-> isoformat(end)]

create_session_with_meet_and_email(tbl, mentor, mentee, start, end, success) ==
    IF success THEN tbl (+) SetToBag({SessionRow(mentor, mentee, start, end)})
    ELSE tbl

NoUrl == [bucket |-> "", path |-> <<>>]
NoProfile == [present |-> FALSE, name |-> "", bio |-> "", skills |-> "",
              goals |-> "", profile_image_url |-> NoUrl]

OtherTables == <<availability, nextSlotId, profile, storage>>
OtherSpecs == <<cs, session_state, page>>

\* The tables empty but for the mentees' requests, no pass under way.
InitDashboard ==
    /\ clock = 0
    /\ requests = InitRequests
    /\ sessions = EmptyBag
    /\ availability = {}
    /\ nextSlotId = 1
    /\ profile = [u \in Mentors |-> NoProfile]
    /\ storage = {}
    /\ run = [p \in Passes |-> Idle]
    /\ ev = NoEvent

---------------------------------------------------------------------------
(* The Requests tab: mentor.py lines 148-200 *)

Tick ==
    /\ clock < MaxClock
    /\ clock' = clock + 1
    /\ ev' = NoEvent
    /\ UNCHANGED <<requests, sessions, OtherTables, run, OtherSpecs>>

\* A pass of show() for mentor m reaches the Requests tab and fetches the
\* pending list.
FetchRequests(p, m) ==
    /\ run[p].pc = "idle"
    /\ run' = [run EXCEPT ![p] = [pc |-> "requests", mentor |-> m,
                                   reqs |-> PendingRequests(m), slots |-> {},
                                   job |-> NoJob]]
    /\ ev' = NoEvent
    /\ UNCHANGED <<clock, requests, sessions, OtherTables, OtherSpecs>>

\* The pass ends with no button of the tab clicked.
EndPass(p) ==
    /\ run[p].pc \in {"requests", "slots"}
    /\ run' = [run EXCEPT ![p] = Idle]
    /\ ev' = NoEvent
    /\ UNCHANGED <<clock, requests, sessions, OtherTables, OtherSpecs>>

AcceptWindowStart_nodelay(c) == now_wat(c)

\* Lines 180-182: the window handed to the collaborator.
AcceptWindowStart(c) == plus_minutes(now_wat(c), StartDelay)
AcceptWindowEnd(c) == plus_minutes(AcceptWindowStart(c), SessionLength)

\* Lines 188-194 with the guard on success dropped.
AcceptStatus_unguarded(tbl, req_id, success, updateOk) ==
    IF updateOk THEN UpdateStatus(tbl, req_id, "ACCEPTED") ELSE tbl

\* Lines 188-194: the request table after the collaborator returned.
AcceptStatus(tbl, req_id, success, updateOk) ==
    IF success /\ updateOk THEN UpdateStatus(tbl, req_id, "ACCEPTED") ELSE tbl

AcceptShown_silent(success, msg) ==
    IF success THEN Shown("success", "Request accepted and session booked!")
    ELSE Nothing

\* Lines 191 and 194: what the mentor is shown (nothing if the update raised).
AcceptShown(success, msg) ==
    IF success THEN Shown("success", "Request accepted and session booked!")
    ELSE Shown("error", msg)

\* Lines 179-186: the Accept button of request req of the fetched list, up
\* to the return of the collaborator.  success, msg: what it returns.  The
\* handler's local variables stay with the pass; other passes run before it
\* goes on.
Accept(p, req, success, msg) ==
    /\ run[p].pc = "requests"
    /\ req \in run[p].reqs
    /\ success => BagCardinality(sessions) < MaxSessions
    /\ LET mentor_id == run[p].mentor
           mentee_id == req.menteeid
           start == AcceptWindowStart(clock)
           end == AcceptWindowEnd(clock)
           call == [mentor |-> mentor_id, mentee |-> mentee_id,
                    start |-> start, end |-> end]
           ret == [success |-> success, msg |-> IF success THEN "" ELSE msg]
       IN  /\ sessions' = create_session_with_meet_and_email(
                              sessions, mentor_id, mentee_id, start, end, success)
           /\ run' = [run EXCEPT ![p].pc = "returned",
                                 ![p].job = [kind |-> "accept", req |-> req.id,
                                             t |-> clock, call |-> call,
                                             ret |-> ret]]
           /\ ev' = [NoEvent EXCEPT !.op = "accept_call", !.req = req.id,
                                    !.t = clock, !.call = call, !.ret = ret,
                                    !.mail = success]
    /\ UNCHANGED <<clock, requests, OtherTables, OtherSpecs>>

\* Lines 188-194: the handler after the collaborator returned.  updateOk:
\* whether the status update of lines 189-190 completes (it raises
\* otherwise, with the Session already created).
AcceptFinish(p, updateOk) ==
    /\ run[p].pc = "returned"
    /\ LET job == run[p].job
           success == job.ret.success
           raises == success /\ ~updateOk
       IN  /\ requests' = AcceptStatus(requests, job.req, success, updateOk)
           /\ ev' = [op |-> "accept", req |-> job.req,
                     was |-> requests[job.req].status, t |-> job.t,
                     call |-> job.call, ret |-> job.ret, mail |-> success,
                     update |-> IF success THEN "ACCEPTED" ELSE "",
                     failed |-> raises, raised |-> raises, partial |-> raises,
                     shown |-> IF raises THEN Nothing
                               ELSE AcceptShown(success, job.ret.msg)]
    /\ run' = [run EXCEPT ![p] = Idle]
    /\ UNCHANGED <<clock, sessions, OtherTables, OtherSpecs>>

RejectStatus_if_pending(tbl, req_id, updateOk) ==
    IF updateOk /\ tbl[req_id].status = "PENDING"
    THEN UpdateStatus(tbl, req_id, "REJECTED") ELSE tbl

\* Lines 197-198: the request table after the update (unchanged if it raised).
RejectStatus(tbl, req_id, updateOk) ==
    IF updateOk THEN UpdateStatus(tbl, req_id, "REJECTED") ELSE tbl

\* Lines 196-200: the Reject button of request req of the fetched list.
Reject(p, req, updateOk) ==
    /\ run[p].pc = "requests"
    /\ req \in run[p].reqs
    /\ requests' = RejectStatus(requests, req.id, updateOk)
    /\ ev' = [op |-> "reject", req |-> req.id, was |-> requests[req.id].status,
              t |-> clock, call |-> NoCall, ret |-> NoReturn, mail |-> FALSE,
              update |-> "REJECTED",
              failed |-> ~updateOk, raised |-> ~updateOk, partial |-> FALSE,
              shown |-> IF updateOk THEN Shown("info", "Request rejected.")
                        ELSE Nothing]
    /\ run' = [run EXCEPT ![p] = Idle]
    /\ UNCHANGED <<clock, sessions, OtherTables, OtherSpecs>>

Init ==
    /\ InitDashboard
    /\ cs = [start |-> NoTime, end |-> NoTime, now |-> 0, label |-> "none"]
    /\ session_state = [authenticated |-> "absent", role |-> "absent",
                        must_change_password |-> "absent",
                        profile_completed |-> "absent"]
    /\ page = [at |-> session_state, view |-> {}]

Next ==
    \/ Tick
    \/ \E p \in Passes, m \in Mentors : FetchRequests(p, m)
    \/ \E p \in Passes : EndPass(p)
    \/ \E p \in Passes : \E req \in run[p].reqs : \E success \in BOOLEAN :
          \E msg \in FailureMessages : Accept(p, req, success, msg)
    \/ \E p \in Passes, updateOk \in BOOLEAN : AcceptFinish(p, updateOk)
    \/ \E p \in Passes : \E req \in run[p].reqs : \E updateOk \in BOOLEAN :
          Reject(p, req, updateOk)

Spec == Init /\ [][Next]_vars

---------------------------------------------------------------------------
(* The Availability tab: mentor.py lines 100-146 *)

\* What st.date_input and the two st.time_input widgets can hold: a day (its
\* first minute) and a time of day.
Dates == {0, 1440}
TimesOfDay == {540, 600}

\* WAT.localize(datetime.combine(date, time))
localize_combine(date, time) == Datetime(date + time, WATOffset)

SlotAccepted_allow_equal(start, end) == ~(Instant(end) < Instant(start))

\* Line 115: the form is declined when end <= start.
SlotAccepted(start, end) == ~(Instant(end) <= Instant(start))

\* Lines 119-123: the row handed to insert; the backend numbers it.
SlotRow(id, mentor_id, start, end) ==
    [availabilityid |-> id, mentorid |-> mentor_id,
     start |-> isoformat(start), end |-> isoformat(end)]

AddSlotEvent(start, end, issued, insertOk) ==
    [op |-> "add_slot", start |-> start, end |-> end, insert |-> issued,
     failed |-> issued /\ ~insertOk, raised |-> FALSE,
     shown |-> IF ~issued
               THEN Shown("warning", "End time must be after start time.")
               ELSE IF insertOk THEN Shown("success", "Availability added")
               ELSE Shown("error", "Failed to add availability")]

\* Lines 111-127: the Add Slot form submitted by mentor m in pass p.
\* insertOk: whether the insert completes (the handler catches its failure).
AddSlot(p, m, date, start_time, end_time, insertOk) ==
    /\ run[p].pc = "idle"
    /\ LET start == localize_combine(date, start_time)
           end == localize_combine(date, end_time)
           issued == SlotAccepted(start, end)
       IN  /\ (issued /\ insertOk) => nextSlotId <= MaxSlots
           /\ availability' =
                  IF issued /\ insertOk
                  THEN availability \cup {SlotRow(nextSlotId, m, start, end)}
                  ELSE availability
           /\ nextSlotId' = IF issued /\ insertOk THEN nextSlotId + 1
                            ELSE nextSlotId
           /\ ev' = AddSlotEvent(start, end, issued, insertOk)
    /\ UNCHANGED <<clock, requests, sessions, profile, storage, run, OtherSpecs>>

\* Line 130: the pass of mentor m lists the mentor's slots.
FetchSlots(p, m) ==
    /\ run[p].pc = "idle"
    /\ run' = [run EXCEPT ![p] =
                  [pc |-> "slots", mentor |-> m, reqs |-> {},
                   slots |-> { s \in availability : s.mentorid = m },
                   job |-> NoJob]]
    /\ ev' = NoEvent
    /\ UNCHANGED <<clock, requests, sessions, OtherTables, OtherSpecs>>

\* Lines 138-144: the delete button of a listed slot; deleting by id a row
\* that is already gone deletes nothing.
DeleteSlot(p, slot, deleteOk) ==
    /\ run[p].pc = "slots"
    /\ slot \in run[p].slots
    /\ availability' =
           IF deleteOk
           THEN { s \in availability : s.availabilityid # slot.availabilityid }
           ELSE availability
    /\ ev' = [op |-> "delete_slot", start |-> NoTime, end |-> NoTime,
              insert |-> FALSE, failed |-> ~deleteOk, raised |-> FALSE,
              shown |-> IF deleteOk THEN Shown("success", "Availability removed.")
                        ELSE Shown("error", "Failed to remove slot")]
    /\ run' = [run EXCEPT ![p] = Idle]
    /\ UNCHANGED <<clock, requests, sessions, nextSlotId, profile, storage,
                   OtherSpecs>>

NextAvail ==
    \/ \E p \in Passes, m \in Mentors, date \in Dates :
          \E start_time \in TimesOfDay, end_time \in TimesOfDay :
             \E insertOk \in BOOLEAN :
                AddSlot(p, m, date, start_time, end_time, insertOk)
    \/ \E p \in Passes, m \in Mentors : FetchSlots(p, m)
    \/ \E p \in Passes : \E slot \in run[p].slots : \E deleteOk \in BOOLEAN :
          DeleteSlot(p, slot, deleteOk)
    \/ \E p \in Passes : EndPass(p)

SpecAvail == Init /\ [][NextAvail]_vars

\* C6: an Add Slot submission with end <= start shows the warning and issues
\* no insert, and every row of the availability table has its end strictly
\* after its start, after any adds and deletes.
C6_SlotsWellFormed ==
    /\ (ev.op = "add_slot" /\ Instant(ev.end) <= Instant(ev.start)) =>
           /\ ~ev.insert
           /\ ev.shown = Shown("warning", "End time must be after start time.")
    /\ \A s \in availability :
           Instant(fromisoformat(s.end)) > Instant(fromisoformat(s.start))

\* A declined submission with end = start, after a slot was added and another
\* added and deleted.
C6_Witness ==
    /\ ev.op = "add_slot" /\ Instant(ev.end) = Instant(ev.start)
    /\ Cardinality(availability) = 1
    /\ nextSlotId = 3

---------------------------------------------------------------------------
(* The profile form of the Dashboard tab: mentor.py lines 69-98 *)

Names == {"Ada", "Bayo"}
Bios == {"bio"}
Skills == {"python"}
Goals == {"goal"}
\* st.file_uploader: no file, or a file with its MIME type split at "/".
NoImage == <<>>
Images == {NoImage, <<"image", "png">>}
\* uuid.uuid4()
Tokens == {"u1", "u2"}

Forms == [name : Names, bio : Bios, skills : Skills, goals : Goals]

\* Lines 87-88: f"{mentor_id}_{uuid}.{file_ext}", file_ext the last part of
\* the type.
FileName(mentor_id, token, image) == <<mentor_id, token, image[Len(image)]>>

\* storage.from_("profilepics").get_public_url(file_name)
PublicUrl(file_name) == [bucket |-> "profilepics", path |-> file_name]

UpdateData_null_url(mentor_id, form, image, imageOk, file_name) ==
    [userid |-> mentor_id, name |-> form.name, bio |-> form.bio,
     skills |-> form.skills, goals |-> form.goals] @@
    (IF image # NoImage
     THEN ("profile_image_url" :>
              IF imageOk THEN PublicUrl(file_name) ELSE NoUrl)
     ELSE <<>>)

\* Lines 77-94: update_data as handed to upsert. imageOk: upload and
\* get_public_url both completed.
UpdateData(mentor_id, form, image, imageOk, file_name) ==
    [userid |-> mentor_id, name |-> form.name, bio |-> form.bio,
     skills |-> form.skills, goals |-> form.goals] @@
    (IF image # NoImage /\ imageOk
     THEN ("profile_image_url" :> PublicUrl(file_name))
     ELSE <<>>)

\* upsert(data, on_conflict = ["userid"]): the row of data.userid takes the
\* columns data carries and keeps the others.
Upsert(tbl, data) ==
    [tbl EXCEPT ![data.userid] =
        [present |-> TRUE, name |-> data.name, bio |-> data.bio,
         skills |-> data.skills, goals |-> data.goals,
         profile_image_url |->
             IF "profile_image_url" \in DOMAIN data
             THEN data.profile_image_url
             ELSE tbl[data.userid].profile_image_url]]

\* Lines 76-94: the profile form submitted by mentor m in pass p, up to the
\* upsert: update_data is built and the image, if any, uploaded.
\* uploadOk, urlOk: whether upload and get_public_url complete (the handler
\* catches their failure).  update_data stays with the pass; other passes
\* run before the upsert.
UpdateProfile(p, m, form, image, token, uploadOk, urlOk) ==
    /\ run[p].pc = "idle"
    /\ LET file_name == FileName(m, token, image)
           stored == image # NoImage /\ uploadOk
           imageOk == uploadOk /\ urlOk
           update_data == UpdateData(m, form, image, imageOk, file_name)
           job == [kind |-> "profile", owner |-> m, form |-> form,
                   image |-> image # NoImage,
                   imageOk |-> image # NoImage /\ imageOk,
                   file |-> IF image # NoImage THEN file_name ELSE <<>>,
                   data |-> update_data]
       IN  /\ stored => (file_name \notin storage
                         /\ Cardinality(storage) < MaxFiles)
           /\ storage' = IF stored THEN storage \cup {file_name} ELSE storage
           /\ run' = [run EXCEPT ![p].pc = "upsert", ![p].mentor = m,
                                 ![p].job = job]
           /\ ev' = [op |-> "profile_upload", owner |-> m,
                     failed |-> image # NoImage /\ ~imageOk, raised |-> FALSE,
                     shown |-> IF image # NoImage /\ ~imageOk
                               THEN {Shown("error", "Profile image upload failed")}
                               ELSE {}]
    /\ UNCHANGED <<clock, requests, sessions, availability, nextSlotId,
                   profile, OtherSpecs>>

\* Lines 96-98: the upsert of the update_data built above.  upsertOk: whether
\* it completes (it raises otherwise).
UpsertProfile(p, upsertOk) ==
    /\ run[p].pc = "upsert"
    /\ LET job == run[p].job
       IN  /\ profile' = IF upsertOk THEN Upsert(profile, job.data) ELSE profile
           /\ ev' = [op |-> "profile", owner |-> job.owner, form |-> job.form,
                     image |-> job.image, imageOk |-> job.imageOk,
                     file |-> job.file, upsert |-> TRUE, data |-> job.data,
                     failed |-> ~upsertOk \/ (job.image /\ ~job.imageOk),
                     raised |-> ~upsertOk,
                     shown |-> (IF job.image /\ ~job.imageOk
                                THEN {Shown("error", "Profile image upload failed")}
                                ELSE {}) \cup
                               (IF upsertOk
                                THEN {Shown("success", "Profile updated successfully!")}
                                ELSE {})]
    /\ run' = [run EXCEPT ![p] = Idle]
    /\ UNCHANGED <<clock, requests, sessions, availability, nextSlotId,
                   storage, OtherSpecs>>

NextProfile ==
    \/ \E p \in Passes, m \in Mentors, form \in Forms, image \in Images :
          \E token \in Tokens, uploadOk \in BOOLEAN, urlOk \in BOOLEAN :
             UpdateProfile(p, m, form, image, token, uploadOk, urlOk)
    \/ \E p \in Passes, upsertOk \in BOOLEAN : UpsertProfile(p, upsertOk)

SpecProfile == Init /\ [][NextProfile]_vars

FormFieldsOf(data) ==
    [name |-> data.name, bio |-> data.bio, skills |-> data.skills,
     goals |-> data.goals]

\* C8: a profile submission with an image whose upload (or public-URL
\* lookup) fails still issues the upsert, keyed by the owner's userid, with
\* the form's name, bio, skills and goals and without a profile_image_url
\* field; when the upload succeeds the data carries the stored file's
\* public URL.  An upsert that completes leaves the owner's row with the
\* form's fields.
C8_ProfileUpsertSurvivesUpload ==
    ev.op = "profile" =>
        /\ ev.upsert
        /\ ev.data.userid = ev.owner
        /\ FormFieldsOf(ev.data) = ev.form
        /\ (ev.image /\ ~ev.imageOk) =>
               /\ "profile_image_url" \notin DOMAIN ev.data
               /\ Shown("error", "Profile image upload failed") \in ev.shown
        /\ (ev.image /\ ev.imageOk) =>
               /\ "profile_image_url" \in DOMAIN ev.data
               /\ ev.data.profile_image_url.path = ev.file
               /\ ev.data.profile_image_url.bucket = "profilepics"
               /\ ev.file \in storage
               /\ ev.file[1] = ev.owner
        /\ ~ev.raised =>
               /\ profile[ev.owner].present
               /\ FormFieldsOf(profile[ev.owner]) = ev.form

\* A failed upload on the resubmission of a profile that already has a
\* picture: the other fields are rewritten, the other owner's row is not.
C8_Witness ==
    /\ ev.op = "profile" /\ ev.image /\ ~ev.imageOk /\ ~ev.raised
    /\ ev.owner = "m1"
    /\ profile["m1"].profile_image_url # NoUrl
    /\ profile["m1"].name = "Bayo"
    /\ profile["m2"].present /\ profile["m2"].name = "Ada"

---------------------------------------------------------------------------
(* classify_session on arbitrary inputs: mentor.py lines 24-36 *)

Offsets == {0, WATOffset}
Walls == { b + k : b \in Offsets, k \in 0..MaxSkew }
Readings == 0..MaxSkew

\* Every value a start or end column can hold.
Values ==
    [kind : {"datetime", "str"}, wall : Walls, off : Offsets] \cup
    [kind : {"badstr", "other"}, wall : {0}, off : {0}]

InitClassify ==
    /\ InitDashboard
    /\ cs \in [start : Values, end : Values, now : Readings, label : {"none"}]
    /\ session_state = [authenticated |-> "absent", role |-> "absent",
                        must_change_password |-> "absent",
                        profile_completed |-> "absent"]
    /\ page = [at |-> session_state, view |-> {}]

\* Line 215: the Sessions tab classifies a row at clock reading cs.now.
Classify ==
    /\ cs.label = "none"
    /\ cs' = [cs EXCEPT !.label = classify_session(cs.start, cs.end, cs.now)]
    /\ UNCHANGED <<clock, requests, sessions, OtherTables, run, ev,
                   session_state, page>>

NextClassify == Classify

SpecClassify == InitClassify /\ [][NextClassify]_vars

Normalizes(v) == v.kind \in {"datetime", "str"}
\* The instant a stored value denotes: its wall-clock reading less its offset.
At(v) == v.wall - v.off

\* The label the stated precedence gives.
ByPrecedence(start, end, now) ==
    IF ~Normalizes(start) \/ ~Normalizes(end) THEN "Invalid"
    ELSE IF At(end) < now THEN "Past"
    ELSE IF At(start) <= now /\ now <= At(end) THEN "Ongoing"
    ELSE "Upcoming"

C4_Precedence ==
    /\ cs.label \in {"Invalid", "Past", "Ongoing", "Upcoming"}
    /\ cs.label = ByPrecedence(cs.start, cs.end, cs.now)
    /\ (~Normalizes(cs.start) \/ ~Normalizes(cs.end)) => cs.label = "Invalid"
    /\ cs.label = "Upcoming" => At(cs.start) > cs.now

\* C4 as stated: the label is the one the precedence Invalid, Past, Ongoing,
\* Upcoming gives, Upcoming implies start > now, and for any bounds that
\* normalize: now = start and now = end give Ongoing, now just after end
\* gives Past, now just before start gives Upcoming.
C4_Original ==
    cs.label # "none" =>
        /\ C4_Precedence
        /\ (Normalizes(cs.start) /\ Normalizes(cs.end)) =>
               /\ cs.now = At(cs.start) => cs.label = "Ongoing"
               /\ cs.now = At(cs.end) => cs.label = "Ongoing"
               /\ cs.now = At(cs.end) + 1 => cs.label = "Past"
               /\ cs.now = At(cs.start) - 1 => cs.label = "Upcoming"

\* C4 amended: the precedence part as stated; the boundary cases now = start,
\* now = end and now just before start hold for start <= end only (with
\* end < start, now = start and a now between end and start give Past, and
\* now = end gives Upcoming); now just after end gives Past for all bounds.
C4_Classifier ==
    cs.label # "none" =>
        /\ C4_Precedence
        /\ (Normalizes(cs.start) /\ Normalizes(cs.end)) =>
               /\ cs.now = At(cs.end) + 1 => cs.label = "Past"
               /\ At(cs.start) <= At(cs.end) =>
                      /\ cs.now = At(cs.start) => cs.label = "Ongoing"
                      /\ cs.now = At(cs.end) => cs.label = "Ongoing"
                      /\ cs.now = At(cs.start) - 1 => cs.label = "Upcoming"
               /\ At(cs.start) > At(cs.end) =>
                      /\ cs.now = At(cs.start) => cs.label = "Past"
                      /\ cs.now = At(cs.end) => cs.label = "Upcoming"

\* A text start written with offset 0 and a datetime end in WAT, classified
\* at the instant of the end: Ongoing on the inclusive upper boundary.
C4_Witness ==
    /\ cs.label = "Ongoing"
    /\ cs.start.kind = "str" /\ cs.start.off = 0
    /\ cs.end.kind = "datetime" /\ cs.end.off = WATOffset
    /\ At(cs.start) < At(cs.end)
    /\ cs.now = At(cs.end)

---------------------------------------------------------------------------
(* The router: app.py lines 74-99 *)

Flags == {"True", "False", "absent"}
Roles == {"Admin", "Mentor", "Mentee", "Guest", "absent"}

SessionStates ==
    [authenticated : Flags, role : Roles, must_change_password : Flags,
     profile_completed : Flags]

\* dict.get(key, False) used as a condition.
Get(flag) == flag = "True"

Route_profile_first(ss) ==
    IF ~Get(ss.authenticated) THEN {"login", "landing", "footer"}
    ELSE IF ss.role # "Admin"
         THEN IF ~Get(ss.profile_completed) THEN {"profile_form"}
              ELSE IF Get(ss.must_change_password) THEN {"change_password"}
              ELSE IF ss.role = "Mentor" THEN {"mentor"}
              ELSE IF ss.role = "Mentee" THEN {"mentee"}
              ELSE {"unknown_role"}
    ELSE {"admin"}

\* Lines 75-99: what one pass of app.py renders under session state ss.
Route(ss) ==
    IF ~Get(ss.authenticated) THEN {"login", "landing", "footer"}
    ELSE IF ss.role # "Admin"
         THEN IF Get(ss.must_change_password) THEN {"change_password"}
              ELSE IF ~Get(ss.profile_completed) THEN {"profile_form"}
              ELSE IF ss.role = "Mentor" THEN {"mentor"}
              ELSE IF ss.role = "Mentee" THEN {"mentee"}
              ELSE {"unknown_role"}
    ELSE {"admin"}

\* One pass of app.py.
RenderPass ==
    /\ page' = [at |-> session_state, view |-> Route(session_state)]
    /\ UNCHANGED <<clock, requests, sessions, OtherTables, run, ev, cs,
                   session_state>>

\* Between passes the handlers outside this file (login, logout,
\* change_password, profile_form) rewrite the session state.
SetSessionState(ss) ==
    /\ session_state' = ss
    /\ UNCHANGED <<clock, requests, sessions, OtherTables, run, ev, cs, page>>

NextRoute ==
    \/ RenderPass
    \/ \E ss \in SessionStates : SetSessionState(ss)

SpecRoute == Init /\ [][NextRoute]_vars

Dashboards == {"mentor", "mentee", "admin"}

\* C10: a pass renders the mentor dashboard only when the session is
\* authenticated, the role is Mentor, must_change_password is not set and
\* profile_completed is set; an authenticated non-admin user with
\* must_change_password set gets change_password and nothing else, whatever
\* profile_completed is; an unauthenticated session gets no role dashboard.
C10_Routing ==
    /\ "mentor" \in page.view =>
           /\ page.at.authenticated = "True"
           /\ page.at.role = "Mentor"
           /\ page.at.must_change_password # "True"
           /\ page.at.profile_completed = "True"
    /\ (page.view # {} /\ page.at.authenticated = "True"
        /\ page.at.role # "Admin" /\ page.at.must_change_password = "True") =>
           page.view = {"change_password"}
    /\ (page.view # {} /\ page.at.authenticated # "True") =>
           page.view \cap Dashboards = {}

\* A mentor who must change the password and has not completed the profile.
C10_Witness ==
    /\ page.view = {"change_password"}
    /\ page.at.role = "Mentor"
    /\ page.at.profile_completed = "False"

---------------------------------------------------------------------------
(* Properties of the request lifecycle *)

HasSession(r) ==
    \E row \in BagToSet(sessions) :
        /\ row.mentorid = requests[r].mentorid
        /\ row.menteeid = requests[r].menteeid

\* C1: every request whose status is ACCEPTED has a Session row for the same
\* mentor and mentee, whatever the collaborator returned on each Accept.
C1_AcceptedHasSession ==
    \A r \in RequestIds : requests[r].status = "ACCEPTED" => HasSession(r)

\* Both requests accepted, each with a Session for its own mentee, while a
\* pass that fetched request 1 earlier still has its Accept under way.
C1_Witness ==
    /\ requests[1].status = "ACCEPTED"
    /\ requests[2].status = "ACCEPTED"
    /\ \E p \in Passes : run[p].pc = "requests" /\ run[p].reqs # {}

\* C2: an Accept whose collaborator call failed issues no status update and
\* leaves the request's status as it is, PENDING if it was PENDING, and shows
\* the collaborator's message as an error.
C2_FailedAcceptStaysPending ==
    (ev.op = "accept" /\ ~ev.ret.success) =>
        /\ requests[ev.req].status = ev.was
        /\ ev.was = "PENDING" => requests[ev.req].status = "PENDING"
        /\ ev.update = ""
        /\ ~ev.raised
        /\ ev.ret.msg \in FailureMessages
        /\ ev.shown = Shown("error", ev.ret.msg)

C2_Witness ==
    /\ ev.op = "accept" /\ ev.was = "PENDING" /\ ~ev.ret.success
    /\ ev.ret.msg = "email not sent"

\* The window and the parties of the collaborator call of an Accept clicked
\* at clock reading ev.t.
AcceptCallAsClaimed ==
    /\ Instant(ev.call.start) = ev.t + 5
    /\ Instant(ev.call.end) = Instant(ev.call.start) + 30
    /\ Instant(ev.call.end) = ev.t + 35
    /\ ev.call.mentor = requests[ev.req].mentorid
    /\ ev.call.mentee = requests[ev.req].menteeid

\* C3 as stated: when the collaborator succeeds it was called with
\* start = t + 5 min and end = start + 30 min for the request's mentor and
\* mentee, and the request's status becomes ACCEPTED.
C3_Original ==
    (ev.op = "accept" /\ ev.ret.success) =>
        /\ AcceptCallAsClaimed
        /\ requests[ev.req].status = "ACCEPTED"

\* C3 amended: as stated, except that the status becomes ACCEPTED only if
\* the status update itself completes; if that call raises, the exception
\* leaves the pass and the request keeps the status it had.
C3_AcceptSuccess ==
    (ev.op = "accept" /\ ev.ret.success) =>
        /\ AcceptCallAsClaimed
        /\ ev.update = "ACCEPTED"
        /\ ~ev.raised => requests[ev.req].status = "ACCEPTED"
        /\ ev.raised => requests[ev.req].status = ev.was

C3_Witness ==
    /\ ev.op = "accept" /\ ev.ret.success /\ ~ev.raised
    /\ ev.t = 1
    /\ requests[ev.req].status = "ACCEPTED"

\* C5 as stated: once a request has left PENDING no later Accept or Reject
\* changes its status.
C5_Terminal ==
    [][\A r \in RequestIds :
          requests[r].status # "PENDING" =>
              requests'[r].status = requests[r].status]_vars

\* C7 as stated: a handler in which a backend call failed lets no
\* exception leave the pass and leaves every backend table as it was before
\* the operation started (no earlier write of the operation stays behind).
C7_FailuresContained ==
    [][ev'.failed =>
          /\ ~ev'.raised
          /\ ~ev'.partial
          /\ UNCHANGED <<requests, sessions, availability, profile, storage>>]_vars

\* C9 as stated: Reject sets the request's status to REJECTED and has no
\* other effect.
C9_Original ==
    [][ev'.op = "reject" =>
          /\ requests' = UpdateStatus(requests, ev'.req, "REJECTED")
          /\ ev'.call = NoCall /\ ~ev'.mail
          /\ UNCHANGED <<sessions, availability, nextSlotId, profile, storage>>]_vars

\* C9 amended: Reject issues the status update to REJECTED whatever the
\* request's current status; the status is REJECTED afterwards unless that
\* update itself raises, in which case the request table is unchanged; in
\* both cases no collaborator call, no Session row, no email, and no other
\* request, session, availability or profile row changes.
C9_RejectOnlyFlipsStatus ==
    [][ev'.op = "reject" =>
          /\ ev'.update = "REJECTED"
          /\ requests' = IF ev'.raised THEN requests
                         ELSE UpdateStatus(requests, ev'.req, "REJECTED")
          /\ ev'.call = NoCall /\ ~ev'.mail
          /\ UNCHANGED <<sessions, availability, nextSlotId, profile, storage>>]_vars

\* A Reject that landed on a request another pass had already accepted.
C9_Witness ==
    /\ ev.op = "reject" /\ ~ev.raised /\ ev.was = "ACCEPTED"
    /\ requests[ev.req].status = "REJECTED"
    /\ BagCardinality(sessions) > 0

====
